---- MODULE Spec2Model ----
(***************************************************************************)
(* Model of internal/provider/key_resource.go: the pbkdf2_key resource.    *)
(* Create and Update run generate (plan -> salt -> PBKDF2 -> template ->   *)
(* eight SetAttribute calls); Read is empty; Delete removes the resource.  *)
(*                                                                         *)
(* Bytes are integers 0..255, a Go string or []byte is a sequence of them. *)
(* A format string is given by the lexemes text/template's lexer cuts it   *)
(* into.  The HMAC of golang.org/x/crypto/pbkdf2 is replaced by a          *)
(* deterministic mixing function of the same inputs and output length.     *)
(***************************************************************************)
EXTENDS Integers, Sequences, FiniteSets, TLC

\* ------------------------------------------------------------------ bounds

\* Longest salt_length a plan asks for.
MaxSaltLen == 2

\* Operations (Create/Read/Update/Delete) the host runs on one resource instance.
MaxOps == 2

\* ----------------------------------------------------------- byte helpers

RECURSIVE Concat(_)
Concat(seqs) ==
    IF seqs = <<>> THEN <<>> ELSE Head(seqs) \o Concat(Tail(seqs))

Zeros(n) == [i \in 1..n |-> 0]

RECURSIVE ShiftRight8(_, _)
\* v >> (8*k) on a two's-complement integer (arithmetic shift = floor division).
ShiftRight8(v, k) ==
    IF k = 0 THEN v ELSE ShiftRight8(v \div 256, k - 1)

\* make([]byte, 8); binary.BigEndian.PutUint64(bs, uint64(data))
BinBufLen == 8

PutUint64(data) ==
    [i \in 1..BinBufLen |-> ShiftRight8(data, BinBufLen - i) % 256]

\* bs[8-len:] panics (slice bounds out of range) unless 0 <= 8-len <= 8.
binPanics(len) ==
    (BinBufLen - len < 0) \/ (BinBufLen - len > BinBufLen)

\* A mutant of bin: the high-order bytes, bs[:len].
binHighOrder(len, data) ==
    SubSeq(PutUint64(data), 1, len)

\* func bin(len int, data int) string, where it does not panic.
bin(len, data) ==
    SubSeq(PutUint64(data), BinBufLen - len + 1, BinBufLen)

\* The alphabet of base64.StdEncoding, as ASCII codes; '=' pads.
B64Char(i) ==
    IF i < 26 THEN 65 + i
    ELSE IF i < 52 THEN 97 + (i - 26)
    ELSE IF i < 62 THEN 48 + (i - 52)
    ELSE IF i = 62 THEN 43 ELSE 47

B64Pad == 61

RECURSIVE b64enc(_)
\* func b64enc(data []byte) string: base64.StdEncoding.EncodeToString
b64enc(data) ==
    IF Len(data) = 0 THEN <<>>
    ELSE IF Len(data) = 1 THEN
        << B64Char(data[1] \div 4), B64Char((data[1] % 4) * 16), B64Pad, B64Pad >>
    ELSE IF Len(data) = 2 THEN
        << B64Char(data[1] \div 4),
           B64Char((data[1] % 4) * 16 + data[2] \div 16),
           B64Char((data[2] % 16) * 4), B64Pad >>
    ELSE
        << B64Char(data[1] \div 4),
           B64Char((data[1] % 4) * 16 + data[2] \div 16),
           B64Char((data[2] % 16) * 4 + data[3] \div 64),
           B64Char(data[3] % 64) >> \o b64enc(SubSeq(data, 4, Len(data)))

\* ------------------------------------------------- hash algorithm registry

\* A mutant of getHashAlgorithm: the default branch returns the 64-byte family.
getHashAlgorithmDefault512(hashFunc) ==
    CASE hashFunc = "sha256" -> [keyLen |-> 32, hashFunc |-> "sha256.New"]
      [] hashFunc = "sha512" -> [keyLen |-> 64, hashFunc |-> "sha512.New"]
      [] OTHER               -> [keyLen |-> 64, hashFunc |-> "sha512.New"]

\* func getHashAlgorithm(hashFunc string) (int, func() hash.Hash)
getHashAlgorithm(hashFunc) ==
    CASE hashFunc = "sha256" -> [keyLen |-> 32, hashFunc |-> "sha256.New"]
      [] hashFunc = "sha512" -> [keyLen |-> 64, hashFunc |-> "sha512.New"]
      [] OTHER               -> [keyLen |-> 32, hashFunc |-> "sha256.New"]

\* hash.Hash.Size() of the primitive a factory makes.
HashSize(h) == IF h = "sha512.New" THEN 64 ELSE 32

\* ------------------------------------------------------------------ PBKDF2

RECURSIVE Mix(_, _)
\* Stand-in for absorbing bytes into the keyed hash: a fold over the message.
Mix(acc, bytes) ==
    IF bytes = <<>> THEN acc
    ELSE Mix((acc * 31 + Head(bytes) + 1) % 65521, Tail(bytes))

\* One block T_block of pbkdf2.Key: hashLen bytes, a deterministic function of
\* the primitive, the password, the salt, the block number and the iteration
\* count.  The loop "for n := 2; n <= iter; n++" runs no round for iter <= 1,
\* so every iter <= 1 gives the block of iter = 1.
Pbkdf2Block(password, salt, iter, h, block) ==
    LET rounds == IF iter < 1 THEN 1 ELSE iter
        seed   == Mix(Mix(Mix(HashSize(h) + block, password),
                          salt \o PutUint64(block)),
                      PutUint64(rounds))
    IN  [x \in 1..HashSize(h) |-> (seed * (x + 6) + x) % 256]

\* pbkdf2.Key(password, salt, iter, keyLen, h): numBlocks blocks, cut to keyLen.
Pbkdf2Key(password, salt, iter, keyLen, h) ==
    LET hashLen   == HashSize(h)
        numBlocks == (keyLen + hashLen - 1) \div hashLen
    IN  SubSeq(Concat([b \in 1..numBlocks |->
                          Pbkdf2Block(password, salt, iter, h, b)]),
               1, keyLen)

\* ------------------------------------------------- text/template: lexemes

\* A format string as the lexemes text/template cuts it into: literal text,
\* "{{", "}}", "(", ")", an identifier, a field (.Name), a number, a string.
Tok(t, s, n, b) == [t |-> t, s |-> s, n |-> n, b |-> b]

LDelim   == Tok("ldelim", "", 0, <<>>)
RDelim   == Tok("rdelim", "", 0, <<>>)
LParen   == Tok("lparen", "", 0, <<>>)
RParen   == Tok("rparen", "", 0, <<>>)
Text(b)  == Tok("text", "", 0, b)
Ident(s) == Tok("ident", s, 0, <<>>)
Field(s) == Tok("field", s, 0, <<>>)
Num(n)   == Tok("num", "", n, <<>>)
Str(b)   == Tok("str", "", 0, b)

\* Values a template expression evaluates to: int, string (bytes of a Go
\* string) or []byte.
IntVal(n)    == [ty |-> "int", n |-> n, b |-> <<>>]
StringVal(b) == [ty |-> "string", n |-> 0, b |-> b]
BytesVal(b)  == [ty |-> "bytes", n |-> 0, b |-> b]

\* formatTemplate.Funcs(template.FuncMap{"bin": bin, "b64enc": b64enc}), and
\* the predefined printf.
FuncNames == {"bin", "b64enc", "printf"}

\* The exported fields of toFmt.
FieldNames == {"Iterations", "Salt", "Key"}

\* ---------------------------------------------------- text/template: Parse

RECURSIVE ParseOperands(_, _, _)
\* The operands of one command from lexeme i on; next is the lexeme that ends
\* the command.  err = "" when the command is well formed.
ParseOperands(toks, i, count) ==
    IF i > Len(toks) THEN [err |-> "unclosed action", next |-> i]
    ELSE LET tok == toks[i] IN
         CASE tok.t \in {"rdelim", "rparen"} ->
                  [err  |-> IF count = 0 THEN "missing value for command" ELSE "",
                   next |-> i]
           [] tok.t \in {"field", "num", "str"} ->
                  ParseOperands(toks, i + 1, count + 1)
           [] tok.t = "ident" ->
                  IF tok.s \in FuncNames
                  THEN ParseOperands(toks, i + 1, count + 1)
                  ELSE [err |-> "function not defined", next |-> i]
           [] tok.t = "lparen" ->
                  LET sub == ParseOperands(toks, i + 1, 0) IN
                  IF sub.err # "" THEN sub
                  ELSE IF toks[sub.next].t # "rparen"
                       THEN [err |-> "unclosed left paren", next |-> sub.next]
                       ELSE ParseOperands(toks, sub.next + 1, count + 1)
           [] OTHER -> [err |-> "unexpected token in command", next |-> i]

RECURSIVE ParseText(_, _)
ParseText(toks, i) ==
    IF i > Len(toks) THEN ""
    ELSE IF toks[i].t = "ldelim" THEN
        LET c == ParseOperands(toks, i + 1, 0) IN
        IF c.err # "" THEN c.err
        ELSE IF toks[c.next].t # "rdelim" THEN "unexpected right paren"
        ELSE ParseText(toks, c.next + 1)
    ELSE ParseText(toks, i + 1)

\* formatTemplate.Parse(text): "" or the parse error.
Parse(toks) == ParseText(toks, 1)

\* -------------------------------------------------- text/template: Execute

RECURSIVE Itoa(_)
\* Decimal digits of an int, as fmt prints it.
Itoa(n) ==
    IF n < 0 THEN <<45>> \o Itoa(0 - n)
    ELSE IF n < 10 THEN <<48 + n>>
    ELSE Itoa(n \div 10) \o <<48 + (n % 10)>>

RECURSIVE JoinInts(_)
JoinInts(b) ==
    IF b = <<>> THEN <<>>
    ELSE IF Len(b) = 1 THEN Itoa(b[1])
    ELSE Itoa(b[1]) \o <<32>> \o JoinInts(Tail(b))

\* What fmt prints for a value with %v: a string verbatim, an int in decimal,
\* a []byte as [1 2 3].
PrintValue(v) ==
    CASE v.ty = "int"    -> Itoa(v.n)
      [] v.ty = "string" -> v.b
      [] OTHER           -> <<91>> \o JoinInts(v.b) \o <<93>>

RECURSIVE Sprintf(_, _)
\* printf: %s of a string or []byte is its bytes, %d prints an int (or a
\* []byte as its elements), %% is a percent sign; any other use of a verb
\* prints Go's "%!" marker.
Sprintf(f, args) ==
    IF f = <<>> THEN <<>>
    ELSE IF f[1] # 37 \/ Len(f) = 1 THEN <<f[1]>> \o Sprintf(Tail(f), args)
    ELSE LET rest == SubSeq(f, 3, Len(f)) IN
         IF f[2] = 37 THEN <<37>> \o Sprintf(rest, args)
         ELSE IF args = <<>> THEN <<37, 33>> \o Sprintf(rest, args)
         ELSE IF f[2] = 115 /\ args[1].ty \in {"string", "bytes"}
              THEN args[1].b \o Sprintf(rest, Tail(args))
         ELSE IF f[2] = 100 /\ args[1].ty \in {"int", "bytes"}
              THEN PrintValue(args[1]) \o Sprintf(rest, Tail(args))
         ELSE <<37, 33>> \o Sprintf(rest, Tail(args))

CallError == [err |-> TRUE, val |-> IntVal(0)]

CallOk(v) == [err |-> FALSE, val |-> v]

\* A mutant of SafeCallBin: the length is clamped to 0..8 instead of the slice
\* expression panicking.
SafeCallBinClamped(len, data) ==
    CallOk(StringVal(bin(IF len < 0 THEN 0
                         ELSE IF len > BinBufLen THEN BinBufLen ELSE len, data)))

\* text/template's safeCall around bin: a panic of the called function is
\* recovered and returned as the call's error.
SafeCallBin(len, data) ==
    IF binPanics(len) THEN CallError ELSE CallOk(StringVal(bin(len, data)))

\* evalCall: the argument count and types are checked, then the function runs.
Call(name, args) ==
    CASE name = "bin" ->
             IF Len(args) # 2 THEN CallError
             ELSE IF args[1].ty # "int" \/ args[2].ty # "int" THEN CallError
             ELSE SafeCallBin(args[1].n, args[2].n)
      [] name = "b64enc" ->
             IF Len(args) # 1 THEN CallError
             ELSE IF args[1].ty # "bytes" THEN CallError
             ELSE CallOk(StringVal(b64enc(args[1].b)))
      [] name = "printf" ->
             IF Len(args) = 0 THEN CallError
             ELSE IF args[1].ty # "string" THEN CallError
             ELSE CallOk(StringVal(Sprintf(args[1].b, Tail(args))))
      [] OTHER -> CallError

RECURSIVE EvalCommand(_, _, _)
RECURSIVE EvalArgs(_, _, _, _)
\* The operands from lexeme i to the end of the command, evaluated in order.
EvalArgs(toks, i, data, acc) ==
    LET tok  == toks[i]
        fail == [err |-> TRUE, vals |-> acc, next |-> i]
    IN  CASE tok.t \in {"rdelim", "rparen"} ->
                 [err |-> FALSE, vals |-> acc, next |-> i]
          [] tok.t = "field" ->
                 IF tok.s \in FieldNames
                 THEN EvalArgs(toks, i + 1, data, Append(acc, data[tok.s]))
                 ELSE fail
          [] tok.t = "num" -> EvalArgs(toks, i + 1, data, Append(acc, IntVal(tok.n)))
          [] tok.t = "str" -> EvalArgs(toks, i + 1, data, Append(acc, StringVal(tok.b)))
          [] tok.t = "ident" ->
                 LET r == Call(tok.s, <<>>) IN
                 IF r.err THEN fail
                 ELSE EvalArgs(toks, i + 1, data, Append(acc, r.val))
          [] tok.t = "lparen" ->
                 LET sub == EvalCommand(toks, i + 1, data) IN
                 IF sub.err THEN fail
                 ELSE EvalArgs(toks, sub.next + 1, data, Append(acc, sub.val))
          [] OTHER -> fail

\* One command: a function applied to its operands, or a single operand.
EvalCommand(toks, i, data) ==
    IF toks[i].t = "ident" THEN
        LET a == EvalArgs(toks, i + 1, data, <<>>) IN
        IF a.err THEN [err |-> TRUE, val |-> IntVal(0), next |-> a.next]
        ELSE LET r == Call(toks[i].s, a.vals) IN
             [err |-> r.err, val |-> r.val, next |-> a.next]
    ELSE
        LET a == EvalArgs(toks, i, data, <<>>) IN
        IF a.err \/ Len(a.vals) # 1
        THEN [err |-> TRUE, val |-> IntVal(0), next |-> a.next]
        ELSE [err |-> FALSE, val |-> a.vals[1], next |-> a.next]

\* The text a lexeme outside an action stands for ("}}" outside an action is
\* literal text).
TokenText(tok) ==
    CASE tok.t = "text"   -> tok.b
      [] tok.t = "rdelim" -> <<125, 125>>
      [] tok.t = "lparen" -> <<40>>
      [] tok.t = "rparen" -> <<41>>
      [] OTHER            -> <<>>

RECURSIVE ExecText(_, _, _, _)
ExecText(toks, i, data, out) ==
    IF i > Len(toks) THEN [err |-> FALSE, out |-> out]
    ELSE IF toks[i].t = "ldelim" THEN
        LET c == EvalCommand(toks, i + 1, data) IN
        IF c.err THEN [err |-> TRUE, out |-> out]
        ELSE ExecText(toks, c.next + 1, data, out \o PrintValue(c.val))
    ELSE ExecText(toks, i + 1, data, out \o TokenText(toks[i]))

\* formatTemplate.Execute(&key, data) of a parsed template, writing after what
\* the buffer holds: the buffer afterwards, and whether Execute failed (what
\* was written before the failing action stays in the buffer).
Execute(toks, data, buf) == ExecText(toks, 1, data, buf)

\* ------------------------------------------------------ plans and state

\* The eight attributes of the schema, in the order generate sets them.
AttrOrder ==
    << "iterations", "format", "password", "hash_algorithm", "salt_length",
       "salt", "key", "result" >>

AttrNames == {AttrOrder[k] : k \in 1..Len(AttrOrder)}

\* A tfsdk.State: null (no resource), or an object whose attributes are null
\* until they are set.
NullState ==
    [present |-> FALSE, nulls |-> AttrNames,
     iterations |-> 0, format |-> <<>>, password |-> <<>>,
     hash_algorithm |-> "", salt_length |-> 0,
     salt |-> <<>>, key |-> <<>>, result |-> <<>>]

\* The schema's default format: {{ printf "%s:%s" (b64enc .Salt) (b64enc .Key) }}
DefaultFormat ==
    << LDelim, Ident("printf"), Str(<<37, 115, 58, 37, 115>>),
       LParen, Ident("b64enc"), Field("Salt"), RParen,
       LParen, Ident("b64enc"), Field("Key"), RParen, RDelim >>

\* The schema's defaults; salt_length is 1 where the schema says 16, so that
\* the salts can be enumerated.
DefaultPlan ==
    [readable |-> TRUE, iterations |-> 100000, format |-> DefaultFormat,
     password |-> <<112, 119>>, hash_algorithm |-> "sha256", salt_length |-> 1]

\* Formats a configuration may give.
\*   i={{ .Iterations }}${{ b64enc .Salt }}
\*   {{ bin 2 .Iterations }}{{ .Key }}}}
\*   v{{ bin 9 .Iterations }}            bin panics: length above 8
\*   v{{ bin -1 .Iterations }}           bin panics: negative length
\*   {{ b64enc .Salt                     unclosed action
\*   {{ hex .Key }}                      function not defined
\*   k{{ .Password }}                    no such field
\*   s{{ b64enc .Iterations }}           wrong argument type
GoodFormats ==
    { DefaultFormat,
      << Text(<<105, 61>>), LDelim, Field("Iterations"), RDelim, Text(<<36>>),
         LDelim, Ident("b64enc"), Field("Salt"), RDelim >>,
      << LDelim, Ident("bin"), Num(2), Field("Iterations"), RDelim,
         LDelim, Field("Key"), RDelim, RDelim >> }

ExecErrorFormats ==
    { << Text(<<118>>), LDelim, Ident("bin"), Num(9), Field("Iterations"), RDelim >>,
      << Text(<<118>>), LDelim, Ident("bin"), Num(-1), Field("Iterations"), RDelim >>,
      << Text(<<107>>), LDelim, Field("Password"), RDelim >>,
      << Text(<<115>>), LDelim, Ident("b64enc"), Field("Iterations"), RDelim >> }

ParseErrorFormats ==
    { << LDelim, Ident("b64enc"), Field("Salt") >>,
      << LDelim, Ident("hex"), Field("Key"), RDelim >> }

Formats == GoodFormats \cup ExecErrorFormats \cup ParseErrorFormats

\* The requests a configuration may make of each field.
PlanSpace ==
    [readable       : BOOLEAN,
     iterations     : {100000, 1},
     format         : Formats,
     password       : {<<112, 119>>, <<115>>},
     hash_algorithm : {"sha256", "sha512", "SHA512", ""},
     salt_length    : (0 - 1)..MaxSaltLen]

PlanFields == DOMAIN DefaultPlan

Changed(p) == {f \in PlanFields : p[f] # DefaultPlan[f]}

\* The plans of the sequential specification: the default plan with one field
\* changed, or with two of format, hash_algorithm and salt_length changed.
Plans ==
    {p \in PlanSpace :
        \/ Cardinality(Changed(p)) <= 1
        \/ /\ Cardinality(Changed(p)) = 2
           /\ Changed(p) \subseteq {"format", "hash_algorithm", "salt_length"}}

\* Bytes the secure-random source may deliver.
SaltBytes == {0, 255}

RECURSIVE ByteSeqs(_)
ByteSeqs(n) ==
    IF n = 0 THEN {<<>>}
    ELSE {Append(s, b) : s \in ByteSeqs(n - 1), b \in SaltBytes}

\* rand.Read(buf): the bytes delivered, or an error.  A read of zero bytes
\* asks the source for nothing and cannot fail.
RandOutcomes(n) ==
    {[err |-> FALSE, bytes |-> b] : b \in ByteSeqs(n)}
    \cup (IF n > 0 THEN {[err |-> TRUE, bytes |-> Zeros(n)]} ELSE {})

\* ------------------------------------------------------------------ state

VARIABLES
    stored,   \* per resource instance: the state the host holds (the prior state)
    nops,     \* per resource instance: operations run so far
    call      \* per resource instance: the invocation in progress, its locals

vars == <<stored, nops, call>>

\* The locals of one invocation.  entropy (the bytes the random source
\* delivered to it) and engine (the parts of the engine it has called) record
\* what happened, nothing reads them.
NewCall(o, p, st) ==
    [op |-> o, pc |-> "get", plan |-> p, state |-> st, diags |-> <<>>,
     keyLen |-> 0, hashFunc |-> "", salt |-> <<>>, dk |-> <<>>, key |-> <<>>,
     setIdx |-> 0, entropy |-> <<>>, engine |-> {}]

IdleCall == [NewCall("none", DefaultPlan, NullState) EXCEPT !.pc = "idle"]

HasError(diags) == diags # <<>>

\* resp.State.SetAttribute(ctx, path.Root(name), value)
SetAttribute(st, name, value) ==
    [st EXCEPT !.present = TRUE, !.nulls = @ \ {name}, ![name] = value]

\* A mutant of RemoveResource: the state is left as it was.
RemoveResourceKeep(st) == st

\* resp.State.RemoveResource(ctx)
RemoveResource(st) == NullState

\* int(plan.Iterations.ValueInt64()): int is 64 bits wide.
ToInt(v) == v

\* A mutant of toFmt: the salt and the key are taken from the response state
\* (which still holds the prior state) instead of the locals.
toFmtFromState(c) ==
    [Iterations |-> IntVal(ToInt(c.plan.iterations)),
     Salt       |-> BytesVal(c.state.salt),
     Key        |-> BytesVal(c.state.key)]

\* toFmt{Iterations: ..., Salt: salt, Key: dk}
toFmt(c) ==
    [Iterations |-> IntVal(ToInt(c.plan.iterations)),
     Salt       |-> BytesVal(c.salt),
     Key        |-> BytesVal(c.dk)]

\* A mutant of AttrValue: hash_algorithm is stored as the name of the
\* algorithm that was used, not as the plan gave it.
AttrValueResolved(c, name) ==
    CASE name = "salt"   -> c.salt
      [] name = "key"    -> c.dk
      [] name = "result" -> c.key
      [] name = "hash_algorithm" ->
             IF c.hashFunc = "sha512.New" THEN "sha512" ELSE "sha256"
      [] OTHER           -> c.plan[name]

\* The value generate passes to the k-th SetAttribute call.
AttrValue(c, name) ==
    CASE name = "salt"   -> c.salt
      [] name = "key"    -> c.dk
      [] name = "result" -> c.key
      [] OTHER           -> c.plan[name]

\* A mutant of MakeSalt: at least one byte is allocated.
MakeSaltAtLeastOne(n) == Zeros(IF n < 1 THEN 1 ELSE n)

\* var salt = make([]byte, n)
MakeSalt(n) == Zeros(n)

\* A mutant of RandRead: the buffer is left as make returned it.
RandReadNothing(buf, bytes) == buf

\* rand.Read(salt[:]) fills the whole buffer with what the source delivers.
RandRead(buf, bytes) == bytes

\* var key bytes.Buffer
NewBuffer == <<>>

\* A mutant of WriteLocals: the output buffer is one buffer shared by all
\* invocations (a package-level variable).
WriteLocalsShared(c, r, new) ==
    [q \in DOMAIN c |-> IF q = r THEN new ELSE [c[q] EXCEPT !.key = new.key]]

\* The invocation of r writes its own locals.
WriteLocals(c, r, new) == [c EXCEPT ![r] = new]

\* ---------------------------------------------------------------- actions

\* func (r KeyResource) Create: generate with the plan, on a null state.
Create(r, p) ==
    /\ call[r].pc = "idle"
    /\ nops[r] < MaxOps
    /\ ~stored[r].present
    /\ call' = WriteLocals(call, r, NewCall("Create", p, NullState))
    /\ UNCHANGED <<stored, nops>>

\* func (r KeyResource) Update: generate with the plan, on the prior state.
Update(r, p) ==
    /\ call[r].pc = "idle"
    /\ nops[r] < MaxOps
    /\ stored[r].present
    /\ call' = WriteLocals(call, r, NewCall("Update", p, stored[r]))
    /\ UNCHANGED <<stored, nops>>

\* func (r KeyResource) Read: the body is empty; the response state is the
\* request's state.
Read(r) ==
    /\ call[r].pc = "idle"
    /\ nops[r] < MaxOps
    /\ stored[r].present
    /\ call' = WriteLocals(call, r,
                  [NewCall("Read", DefaultPlan, stored[r]) EXCEPT !.pc = "done"])
    /\ UNCHANGED <<stored, nops>>

\* func (r KeyResource) Delete: resp.State.RemoveResource(ctx)
Delete(r) ==
    /\ call[r].pc = "idle"
    /\ nops[r] < MaxOps
    /\ stored[r].present
    /\ call' = WriteLocals(call, r,
                  [NewCall("Delete", DefaultPlan, RemoveResource(stored[r]))
                      EXCEPT !.pc = "done"])
    /\ UNCHANGED <<stored, nops>>

\* generate: req.Plan.Get(ctx, &plan); return if the diagnostics hold an error.
PlanGet(r) ==
    LET c == call[r]
        d == c.diags \o (IF c.plan.readable THEN <<>>
                                            ELSE <<"Value Conversion Error">>)
    IN  /\ c.pc = "get"
        /\ call' = WriteLocals(call, r,
                      [c EXCEPT !.diags = d,
                                !.pc = IF HasError(d) THEN "done" ELSE "alg"])
        /\ UNCHANGED <<stored, nops>>

\* generate: keyLen, hashFunc := getHashAlgorithm(plan.HashAlgorithm.ValueString())
LookupHash(r) ==
    LET c   == call[r]
        alg == getHashAlgorithm(c.plan.hash_algorithm)
    IN  /\ c.pc = "alg"
        /\ call' = WriteLocals(call, r,
                      [c EXCEPT !.keyLen = alg.keyLen, !.hashFunc = alg.hashFunc,
                                !.pc = "make"])
        /\ UNCHANGED <<stored, nops>>

\* generate: var salt = make([]byte, plan.SaltLength.ValueInt64()); make
\* panics on a negative length, and nothing in generate recovers.
AllocSalt(r) ==
    LET c == call[r]
    IN  /\ c.pc = "make"
        /\ call' = WriteLocals(call, r,
                      IF c.plan.salt_length < 0
                      THEN [c EXCEPT !.pc = "panic"]
                      ELSE [c EXCEPT !.salt = MakeSalt(c.plan.salt_length),
                                     !.pc = "rand"])
        /\ UNCHANGED <<stored, nops>>

\* generate: _, err := rand.Read(salt[:]); "Salt Error" and return on an error.
ReadRandom(r) ==
    LET c == call[r]
    IN  /\ c.pc = "rand"
        /\ \E o \in RandOutcomes(Len(c.salt)) :
              call' = WriteLocals(call, r,
                 IF o.err
                 THEN [c EXCEPT !.diags = Append(@, "Salt Error"),
                                !.engine = @ \cup {"rand"}, !.pc = "done"]
                 ELSE [c EXCEPT !.salt = RandRead(c.salt, o.bytes),
                                !.entropy = o.bytes,
                                !.engine = @ \cup {"rand"}, !.pc = "pbkdf2"])
        /\ UNCHANGED <<stored, nops>>

\* generate: dk := pbkdf2.Key([]byte(password), salt, int(iterations), keyLen,
\* hashFunc); var key bytes.Buffer
DeriveKey(r) ==
    LET c == call[r]
    IN  /\ c.pc = "pbkdf2"
        /\ call' = WriteLocals(call, r,
                      [c EXCEPT !.dk = Pbkdf2Key(c.plan.password, c.salt,
                                                 ToInt(c.plan.iterations),
                                                 c.keyLen, c.hashFunc),
                                !.key = NewBuffer,
                                !.engine = @ \cup {"pbkdf2"}, !.pc = "parse"])
        /\ UNCHANGED <<stored, nops>>

\* generate: template.New, Funcs, Parse; "Format Error" and return on an error.
ParseFormat(r) ==
    LET c == call[r]
        e == Parse(c.plan.format)
    IN  /\ c.pc = "parse"
        /\ call' = WriteLocals(call, r,
                      IF e # ""
                      THEN [c EXCEPT !.diags = Append(@, "Format Error"),
                                     !.engine = @ \cup {"parse"}, !.pc = "done"]
                      ELSE [c EXCEPT !.engine = @ \cup {"parse"}, !.pc = "exec"])
        /\ UNCHANGED <<stored, nops>>

\* generate: formatTemplate.Execute(&key, toFmt{...}); "Format Error" and
\* return on an error.
ExecuteFormat(r) ==
    LET c   == call[r]
        res == Execute(c.plan.format, toFmt(c), c.key)
    IN  /\ c.pc = "exec"
        /\ call' = WriteLocals(call, r,
                      IF res.err
                      THEN [c EXCEPT !.key = res.out,
                                     !.diags = Append(@, "Format Error"),
                                     !.engine = @ \cup {"execute"}, !.pc = "done"]
                      ELSE [c EXCEPT !.key = res.out,
                                     !.engine = @ \cup {"execute"},
                                     !.pc = "set", !.setIdx = 1])
        /\ UNCHANGED <<stored, nops>>

\* generate: the next of the eight resp.State.SetAttribute calls; the call's
\* diagnostics are appended (a value of the attribute's type sets without any).
SetNext(r) ==
    LET c    == call[r]
        name == AttrOrder[c.setIdx]
    IN  /\ c.pc = "set"
        /\ call' = WriteLocals(call, r,
                      [c EXCEPT !.state = SetAttribute(@, name, AttrValue(c, name)),
                                !.setIdx = IF c.setIdx = Len(AttrOrder) THEN 0
                                           ELSE c.setIdx + 1,
                                !.pc = IF c.setIdx = Len(AttrOrder) THEN "done"
                                       ELSE "set"])
        /\ UNCHANGED <<stored, nops>>

\* The handler returns: the host keeps the response state as the resource's
\* state.  After a panic there is no response and the host keeps what it had.
Return(r) ==
    LET c == call[r]
    IN  /\ c.pc \in {"done", "panic"}
        /\ stored' = [stored EXCEPT ![r] = IF c.pc = "done" THEN c.state ELSE @]
        /\ nops' = [nops EXCEPT ![r] = @ + 1]
        /\ call' = WriteLocals(call, r, IdleCall)

\* ---------------------------------------------------------- specifications

\* One resource instance, its operations one after the other.
SeqResources == {1}

Init ==
    /\ stored = [r \in SeqResources |-> NullState]
    /\ nops = [r \in SeqResources |-> 0]
    /\ call = [r \in SeqResources |-> IdleCall]

Next ==
    \/ \E r \in SeqResources, p \in Plans : Create(r, p)
    \/ \E r \in SeqResources, p \in Plans : Update(r, p)
    \/ \E r \in SeqResources : Read(r)
    \/ \E r \in SeqResources : Delete(r)
    \/ \E r \in SeqResources : PlanGet(r)
    \/ \E r \in SeqResources : LookupHash(r)
    \/ \E r \in SeqResources : AllocSalt(r)
    \/ \E r \in SeqResources : ReadRandom(r)
    \/ \E r \in SeqResources : DeriveKey(r)
    \/ \E r \in SeqResources : ParseFormat(r)
    \/ \E r \in SeqResources : ExecuteFormat(r)
    \/ \E r \in SeqResources : SetNext(r)
    \/ \E r \in SeqResources : Return(r)

Spec == Init /\ [][Next]_vars

\* Two resource instances whose Create and Update invocations interleave at
\* every step of generate.
ConcResources == {1, 2}

\* The plans of the concurrent specification.
ConcPlans ==
    { DefaultPlan,
      [DefaultPlan EXCEPT !.hash_algorithm = "sha512",
                          !.format = << Text(<<105, 61>>), LDelim,
                                        Field("Iterations"), RDelim, Text(<<36>>),
                                        LDelim, Ident("b64enc"), Field("Salt"),
                                        RDelim >>],
      [DefaultPlan EXCEPT !.format = << Text(<<118>>), LDelim, Ident("bin"),
                                        Num(9), Field("Iterations"), RDelim >>] }

InitConc ==
    /\ stored = [r \in ConcResources |-> NullState]
    /\ nops = [r \in ConcResources |-> 0]
    /\ call = [r \in ConcResources |-> IdleCall]

NextConc ==
    \/ \E r \in ConcResources, p \in ConcPlans : Create(r, p)
    \/ \E r \in ConcResources, p \in ConcPlans : Update(r, p)
    \/ \E r \in ConcResources : PlanGet(r)
    \/ \E r \in ConcResources : LookupHash(r)
    \/ \E r \in ConcResources : AllocSalt(r)
    \/ \E r \in ConcResources : ReadRandom(r)
    \/ \E r \in ConcResources : DeriveKey(r)
    \/ \E r \in ConcResources : ParseFormat(r)
    \/ \E r \in ConcResources : ExecuteFormat(r)
    \/ \E r \in ConcResources : SetNext(r)
    \/ \E r \in ConcResources : Return(r)

SpecConc == InitConc /\ [][NextConc]_vars

\* The template helper bin, called by the template engine with every length
\* from -1 to 9 and a range of values: {{ bin N V }}.
BinValues ==
    { 0, 1, 255, 256, 65535, 100000, 16777216, 2147483647,
      0 - 1, 0 - 2, 0 - 256, 0 - 100000, 0 - 2147483647 }

BinFormat(n, v) == << LDelim, Ident("bin"), Num(n), Num(v), RDelim >>

BinPlans ==
    {[DefaultPlan EXCEPT !.format = BinFormat(n, v)] :
        n \in (0 - 1)..(BinBufLen + 1), v \in BinValues}

NextBin ==
    \/ \E r \in SeqResources, p \in BinPlans : Create(r, p)
    \/ \E r \in SeqResources : PlanGet(r)
    \/ \E r \in SeqResources : LookupHash(r)
    \/ \E r \in SeqResources : AllocSalt(r)
    \/ \E r \in SeqResources : ReadRandom(r)
    \/ \E r \in SeqResources : DeriveKey(r)
    \/ \E r \in SeqResources : ParseFormat(r)
    \/ \E r \in SeqResources : ExecuteFormat(r)
    \/ \E r \in SeqResources : SetNext(r)
    \/ \E r \in SeqResources : Return(r)

SpecBin == Init /\ [][NextBin]_vars

\* ------------------------------------------------------------- the claims

\* The invocation is one of generate (Create or Update).
Generating(c) == c.op \in {"Create", "Update"}

\* generate has returned without an error diagnostic.
Succeeded(c) == Generating(c) /\ c.pc = "done" /\ ~HasError(c.diags)

RequestFields ==
    {"iterations", "format", "password", "hash_algorithm", "salt_length"}

\* The registry as the specification states it.
ExpectedKeyLen(name) == IF name = "sha512" THEN 64 ELSE 32

ExpectedHash(name) == IF name = "sha512" THEN "sha512.New" ELSE "sha256.New"

\* The state generate writes when it runs alone with plan p and draws salt e.
Alone(p, e) ==
    LET k   == Pbkdf2Key(p.password, e, p.iterations,
                         ExpectedKeyLen(p.hash_algorithm),
                         ExpectedHash(p.hash_algorithm))
        res == Execute(p.format,
                       [Iterations |-> IntVal(p.iterations),
                        Salt |-> BytesVal(e), Key |-> BytesVal(k)], <<>>)
    IN  [present |-> TRUE, nulls |-> {},
         iterations |-> p.iterations, format |-> p.format,
         password |-> p.password, hash_algorithm |-> p.hash_algorithm,
         salt_length |-> p.salt_length,
         salt |-> e, key |-> k, result |-> res.out]

\* C1 (as stated): every invocation of generate ends either with an error
\* diagnostic and the state it was given, or with all eight attributes
\* written.  A negative salt_length ends it with a panic in make and no
\* diagnostic at all.
C1_ErrorOrAllEight ==
    \A r \in DOMAIN call :
        LET c == call[r] IN
        (Generating(c) /\ c.pc \in {"done", "panic"}) =>
            \/ HasError(c.diags) /\ c.state = stored[r]
            \/ ~HasError(c.diags) /\ c.state.present /\ c.state.nulls = {}

\* C1 (the part the code keeps): an invocation of generate that has ended has
\* written all eight attributes or none, and one that ended with an error
\* diagnostic or a panic left the state it was given.
C1_NoPartialCommit ==
    \A r \in DOMAIN call :
        LET c == call[r] IN
        (Generating(c) /\ c.pc \in {"done", "panic"}) =>
            /\ c.state = stored[r] \/ (c.state.present /\ c.state.nulls = {})
            /\ (HasError(c.diags) \/ c.pc = "panic") => c.state = stored[r]

\* C2: "sha256" selects 32 bytes, "sha512" 64 bytes, every other name 32
\* bytes and the SHA-256 primitive, without a diagnostic; the derived key and
\* the stored key have exactly that length.
C2_HashLookup ==
    \A r \in DOMAIN call :
        LET c == call[r]
            h == c.plan.hash_algorithm
        IN  Generating(c) =>
            /\ (c.pc \in {"make", "rand", "pbkdf2", "parse", "exec", "set", "panic"}
                    \/ c.engine # {})
                  => /\ c.keyLen = ExpectedKeyLen(h)
                     /\ c.hashFunc = ExpectedHash(h)
            /\ c.pc = "make" => c.diags = <<>>
            /\ "pbkdf2" \in c.engine => Len(c.dk) = ExpectedKeyLen(h)
            /\ Succeeded(c) => Len(c.state.key) = ExpectedKeyLen(h)

\* C2 witness: an unrecognised name went through and a 32-byte key is stored.
C2_Witness ==
    \E r \in DOMAIN call :
        /\ Succeeded(call[r])
        /\ call[r].plan.hash_algorithm = ""
        /\ Len(call[r].state.key) = 32

\* C3: the salt has exactly salt_length bytes, and salt_length 0 is not
\* rejected: with a readable plan and a well-formed format the invocation
\* succeeds and stores an empty salt.
C3_SaltLength ==
    \A r \in DOMAIN call :
        LET c == call[r] IN
        Generating(c) =>
            /\ "pbkdf2" \in c.engine => Len(c.salt) = c.plan.salt_length
            /\ Succeeded(c) => Len(c.state.salt) = c.plan.salt_length
            /\ (c.pc = "done" /\ c.plan.salt_length = 0 /\ c.plan.readable
                    /\ c.plan.format \in GoodFormats)
                  => Succeeded(c) /\ c.state.nulls = {} /\ c.state.salt = <<>>

\* C3 witness: generate succeeded with salt_length 0.
C3_Witness ==
    \E r \in DOMAIN call :
        /\ Succeeded(call[r])
        /\ call[r].plan.salt_length = 0
        /\ call[r].state.present
        /\ call[r].state.salt = <<>>
        /\ Len(call[r].state.key) > 0

\* The 64-bit two's-complement big-endian encoding, from sign and magnitude:
\* v >= 0 is its eight base-256 digits, v < 0 is the complement of the digits
\* of -v-1.
RECURSIVE Digits256(_, _)
Digits256(v, k) ==
    IF k = 0 THEN <<>> ELSE Append(Digits256(v \div 256, k - 1), v % 256)

TwosComplement64(v) ==
    IF v >= 0 THEN Digits256(v, 8)
    ELSE [i \in 1..8 |-> 255 - Digits256((0 - v) - 1, 8)[i]]

IsBinFormat(f) ==
    /\ Len(f) = 5
    /\ f[2] = Ident("bin")
    /\ f[3].t = "num"
    /\ f[4].t = "num"

\* C4: for a length n in 0..8, {{ bin n v }} renders exactly n bytes, the
\* low-order n bytes of the 64-bit big-endian two's-complement encoding of v;
\* bin 2 100000 is 0x86 0xA0.
C4_BinLowOrderBytes ==
    \A r \in DOMAIN call :
        LET c == call[r]
            f == c.plan.format
        IN  (IsBinFormat(f) /\ "execute" \in c.engine /\ f[3].n \in 0..8) =>
            /\ ~HasError(c.diags)
            /\ Len(c.key) = f[3].n
            /\ c.key = SubSeq(TwosComplement64(f[4].n), 9 - f[3].n, 8)
            /\ (f[3].n = 2 /\ f[4].n = 100000) => c.key = <<134, 160>>
            /\ Succeeded(c) => c.state.result = c.key

\* C4 witness: bin 3 of a negative value was rendered and stored.
C4_Witness ==
    \E r \in DOMAIN call :
        /\ Succeeded(call[r])
        /\ call[r].plan.format = BinFormat(3, 0 - 256)
        /\ call[r].state.result = <<255, 255, 0>>

BadFormats == ParseErrorFormats \cup ExecErrorFormats

\* C5: a format that fails to parse (unclosed action, undefined function) or
\* to execute (bin with a length above 8 or below 0, a missing field, a wrong
\* argument type) ends generate with exactly a "Format Error" diagnostic and
\* the state it was given: no panic, no attribute written.
C5_FormatError ==
    \A r \in DOMAIN call :
        LET c == call[r] IN
        (Generating(c) /\ c.plan.format \in BadFormats /\ "pbkdf2" \in c.engine) =>
            /\ c.pc \in {"parse", "exec", "done"}
            /\ c.pc = "exec" => c.plan.format \notin ParseErrorFormats
            /\ c.pc = "done" => /\ c.diags = <<"Format Error">>
                                /\ c.state = stored[r]

\* C5 witness: bin with length 9 failed after the text before it was written
\* to the buffer; the diagnostic is there and the state is the prior state.
C5_Witness ==
    \E r \in DOMAIN call :
        /\ call[r].pc = "done"
        /\ call[r].op = "Update"
        /\ call[r].plan.format =
              << Text(<<118>>), LDelim, Ident("bin"), Num(9), Field("Iterations"), RDelim >>
        /\ call[r].key = <<118>>
        /\ call[r].diags = <<"Format Error">>
        /\ call[r].state = stored[r]

\* C6: a successful Create or Update has read the random source, and the
\* salt, key and result it stores are the bytes the source delivered and what
\* is derived and rendered from them, whatever the prior state holds.
C6_FreshSalt ==
    \A r \in DOMAIN call :
        LET c == call[r] IN
        Succeeded(c) =>
            /\ "rand" \in c.engine
            /\ c.state.salt = c.entropy
            /\ c.state.key = Alone(c.plan, c.entropy).key
            /\ c.state.result = Alone(c.plan, c.entropy).result

\* C6 witness: an Update whose plan equals the plan of the prior state stored
\* another salt and another key.
C6_Witness ==
    \E r \in DOMAIN call :
        /\ Succeeded(call[r])
        /\ call[r].op = "Update"
        /\ \A f \in RequestFields : call[r].plan[f] = stored[r][f]
        /\ call[r].state.salt # stored[r].salt
        /\ call[r].state.key # stored[r].key

C8_ReadDelete ==
    \A r \in DOMAIN call :
        LET c == call[r] IN
        /\ c.op = "Read" => /\ c.pc = "done"
                            /\ c.state = stored[r]
                            /\ c.diags = <<>>
                            /\ c.engine = {}
        /\ c.op = "Delete" => /\ c.pc = "done"
                              /\ c.state = NullState
                              /\ c.diags = <<>>
                              /\ c.engine = {}

\* C8 witness: Delete has run on an existing resource.
C8_Witness ==
    \E r \in DOMAIN call :
        /\ call[r].op = "Delete"
        /\ call[r].pc = "done"
        /\ stored[r].present
        /\ ~call[r].state.present

\* C9: an invocation with the request fields of the prior state that draws
\* the prior state's salt stores the prior state's key and result.
C9_Deterministic ==
    \A r \in DOMAIN call :
        LET c == call[r] IN
        (/\ Succeeded(c)
         /\ stored[r].present
         /\ \A f \in RequestFields : c.plan[f] = stored[r][f]
         /\ c.entropy = stored[r].salt)
            => /\ c.state.key = stored[r].key
               /\ c.state.result = stored[r].result

\* C9 witness: an Update repeated the prior plan and drew the prior salt.
C9_Witness ==
    \E r \in DOMAIN call :
        /\ Succeeded(call[r])
        /\ call[r].op = "Update"
        /\ \A f \in RequestFields : call[r].plan[f] = stored[r][f]
        /\ call[r].entropy = stored[r].salt
        /\ Len(call[r].entropy) > 0
        /\ call[r].state.result = stored[r].result

\* C10: under every interleaving, an invocation that succeeds has written the
\* state it writes when run alone with its plan and its salt, and one that
\* failed has left its own state as it was given.
C10_NoInterference ==
    \A r \in DOMAIN call :
        LET c == call[r] IN
        (Generating(c) /\ c.pc = "done") =>
            IF HasError(c.diags) THEN c.state = stored[r]
            ELSE c.state = Alone(c.plan, c.entropy)

\* C10 witness: one invocation has succeeded while another, with another plan,
\* is between two of its SetAttribute calls.
C10_Witness ==
    \E r \in DOMAIN call : \E q \in DOMAIN call :
        /\ r # q
        /\ Succeeded(call[r])
        /\ call[q].pc = "set"
        /\ call[q].setIdx > 1
        /\ call[q].plan # call[r].plan
        /\ call[q].entropy # call[r].entropy

====
